---- MODULE Spec2Model ----
(***************************************************************************)
(* Model of the AI agent: the tool-invocation protocol of                  *)
(* AIAgent.process_query (agent.py), the conversation memory and its       *)
(* persisted file, and the per-user agent map of the Telegram front end    *)
(* (bot.py).                                                               *)
(*                                                                         *)
(* A text is a sequence of lexical tokens: the marker tokens "TOOL:" and   *)
(* "ARGS:", word tokens (maximal runs of \w characters), the whitespace    *)
(* tokens " " and "\n", and single punctuation characters.  The regular    *)
(* expressions and the JSON parser of the code work on this token level.   *)
(* The user-visible Russian strings of the code are written in English.    *)
(***************************************************************************)
EXTENDS Integers, Sequences, FiniteSets, TLC

(***************************************************************************)
(* Bounds of the model.                                                    *)
(***************************************************************************)
MaxMessages == 2
MaxDirectives == 4
MaxFaulty == 1
MaxReminders == 4

(***************************************************************************)
(* Program constants.                                                      *)
(***************************************************************************)
max_iterations == 3

HistoryWindow == 10

Users == {"A", "B"}
Handlers == {"h1", "h2"}
NoAgent == 0
AgentIds == 1..Cardinality(Users)

(***************************************************************************)
(* Lexical classes.                                                        *)
(***************************************************************************)
Whitespace == {" ", "\n"}
Punctuation == {"{", "}", "\"", "'", ":", ",", "+", "!", ".", "(", ")", "\\"}
Markers == {"TOOL:", "ARGS:"}
IsWord(tok) == tok \notin Whitespace \cup Punctuation \cup Markers

RECURSIVE SkipWs(_, _)
\* the first position >= i of text t that holds no whitespace (regex \s*)
SkipWs(t, i) ==
    IF i <= Len(t) /\ t[i] \in Whitespace THEN SkipWs(t, i + 1) ELSE i

Suffix(t, i) == SubSeq(t, i, Len(t))

RECURSIVE Contains(_, _)
\* substring test: sub occurs in t
Contains(t, sub) ==
    IF Len(sub) > Len(t) THEN FALSE
    ELSE IF SubSeq(t, 1, Len(sub)) = sub THEN TRUE
    ELSE Contains(Suffix(t, 2), sub)

(***************************************************************************)
(* The attributes of the tools object (tools.py): the 14 tool methods,     *)
(* the two private helpers, the two data attributes, and attributes that   *)
(* every object inherits.                                                  *)
(***************************************************************************)
ToolMethods ==
    {"get_weather", "get_crypto_price", "web_search", "http_request",
     "read_file", "write_file", "list_directory", "run_terminal_command",
     "get_exchange_rate", "generate_qr_code", "add_reminder",
     "list_reminders", "delete_reminder", "calculate"}
PrivateMethods == {"_get_rate_cbr", "_get_rate_frankfurter"}
DataAttributes == {"geolocator", "safe_commands"}
InheritedAttributes == {"__init__", "__class__", "__doc__", "__dict__"}

hasattr_never(tool_name) == FALSE
\* hasattr(self.tools, tool_name)
hasattr(tool_name) ==
    tool_name \in ToolMethods \cup PrivateMethods \cup DataAttributes
                  \cup InheritedAttributes

(***************************************************************************)
(* The directive parser of _execute_tool_from_response.                    *)
(***************************************************************************)
NoMatch == <<>>

ContainsToolMarker_always(response_text) == TRUE
\* "TOOL:" in response_text
ContainsToolMarker(response_text) ==
    \E i \in 1..Len(response_text) : response_text[i] = "TOOL:"

\* position i starts a match of TOOL:\s*(\w+)
ToolMatchAt(t, i) ==
    /\ t[i] = "TOOL:"
    /\ SkipWs(t, i + 1) <= Len(t)
    /\ IsWord(t[SkipWs(t, i + 1)])

\* re.search(r'TOOL:\s*(\w+)', response_text): group 1 of the leftmost
\* match as a one-token text, or NoMatch
ToolMatch(t) ==
    IF \E i \in 1..Len(t) : ToolMatchAt(t, i)
    THEN LET i == CHOOSE i \in 1..Len(t) :
                      /\ ToolMatchAt(t, i)
                      /\ \A j \in 1..(i - 1) : ~ToolMatchAt(t, j)
         IN  <<t[SkipWs(t, i + 1)]>>
    ELSE NoMatch

\* \s*$ under re.MULTILINE matches right after position k
EolAfter(t, k) ==
    \E m \in (k + 1)..(Len(t) + 1) :
        /\ \A n \in (k + 1)..(m - 1) : t[n] \in Whitespace
        /\ (m = Len(t) + 1 \/ t[m] = "\n")

\* a closing brace at k ends a match of \{.+?\}\s*$ whose brace opens at j
ClosesAt(t, j, k) == k > j + 1 /\ t[k] = "}" /\ EolAfter(t, k)

\* position i starts a match of ARGS:\s*(\{.+?\})\s*$
ArgsMatchAt(t, i) ==
    /\ t[i] = "ARGS:"
    /\ SkipWs(t, i + 1) <= Len(t)
    /\ t[SkipWs(t, i + 1)] = "{"
    /\ \E k \in 1..Len(t) : ClosesAt(t, SkipWs(t, i + 1), k)

\* re.search(r'ARGS:\s*(\{.+?\})\s*$', response_text, MULTILINE | DOTALL):
\* group 1 of the leftmost match (the lazy .+? stops at the first closing
\* brace that ends a line), or NoMatch
ArgsMatch(t) ==
    IF \E i \in 1..Len(t) : ArgsMatchAt(t, i)
    THEN LET i == CHOOSE i \in 1..Len(t) :
                      /\ ArgsMatchAt(t, i)
                      /\ \A j \in 1..(i - 1) : ~ArgsMatchAt(t, j)
             j == SkipWs(t, i + 1)
             k == CHOOSE k \in 1..Len(t) :
                      /\ ClosesAt(t, j, k)
                      /\ \A n \in 1..(k - 1) : ~ClosesAt(t, j, n)
         IN  SubSeq(t, j, k)
    ELSE NoMatch

(***************************************************************************)
(* json.loads on an object payload.  A value is a string or a bare         *)
(* literal (number, true, false, null).  The result is [ok, val]: val maps *)
(* each key to its value; a later duplicate key replaces an earlier one.   *)
(***************************************************************************)
JsonLiterals == {"0", "1", "2", "5", "true", "false", "null"}
EmptyDict == <<>>
ParseFail == [ok |-> FALSE, val |-> EmptyDict, next |-> 0]

\* what a backslash may precede inside a JSON string, among the tokens of
\* the model
Escapable == {"\"", "\\", "/"}

RECURSIVE ScanString(_, _, _)
\* the scan of a JSON string from position i on, acc being its contents so
\* far: it ends at the first quote that no backslash escapes, and fails at
\* the end of the text, at a raw newline or at a backslash before a token
\* that cannot be escaped
ScanString(s, i, acc) ==
    IF i > Len(s) \/ s[i] = "\n" THEN ParseFail
    ELSE IF s[i] = "\""
    THEN [ok |-> TRUE, val |-> [t |-> "str", v |-> acc], next |-> i + 1]
    ELSE IF s[i] = "\\"
    THEN IF i + 1 <= Len(s) /\ s[i + 1] \in Escapable
         THEN ScanString(s, i + 2, Append(acc, s[i + 1]))
         ELSE ParseFail
    ELSE ScanString(s, i + 1, Append(acc, s[i]))

\* a JSON string starting at p: "contents" without a raw newline
ParseString(s, p) ==
    IF p <= Len(s) /\ s[p] = "\"" THEN ScanString(s, p + 1, <<>>)
    ELSE ParseFail

ParseValue(s, p) ==
    IF p <= Len(s) /\ s[p] \in JsonLiterals
    THEN [ok |-> TRUE, val |-> [t |-> "lit", v |-> <<s[p]>>], next |-> p + 1]
    ELSE ParseString(s, p)

DictPut(m, k, v) ==
    [x \in DOMAIN m \cup {k} |-> IF x = k THEN v ELSE m[x]]

RECURSIVE ParseMembers(_, _, _)
\* key : value pairs from p on, up to the closing brace and the end of s
ParseMembers(s, p, m) ==
    LET key == ParseString(s, p)
        q == SkipWs(s, key.next)
        r == SkipWs(s, q + 1)
        val == ParseValue(s, r)
        u == SkipWs(s, val.next)
        m2 == DictPut(m, key.val.v, val.val)
    IN  IF ~key.ok \/ q > Len(s) \/ s[q] # ":" THEN ParseFail
        ELSE IF ~val.ok \/ u > Len(s) THEN ParseFail
        ELSE IF s[u] = "," THEN ParseMembers(s, SkipWs(s, u + 1), m2)
        ELSE IF s[u] = "}" /\ SkipWs(s, u + 1) > Len(s)
             THEN [ok |-> TRUE, val |-> m2, next |-> Len(s) + 1]
        ELSE ParseFail

\* json.loads(args_str)
json_loads(s) ==
    LET p == SkipWs(s, 1)
        q == SkipWs(s, p + 1)
    IN  IF p > Len(s) \/ s[p] # "{" \/ q > Len(s) THEN ParseFail
        ELSE IF s[q] = "}"
             THEN IF SkipWs(s, q + 1) > Len(s)
                  THEN [ok |-> TRUE, val |-> EmptyDict, next |-> Len(s) + 1]
                  ELSE ParseFail
        ELSE ParseMembers(s, q, EmptyDict)

\* args_str.replace("'", '"')
ReplaceQuotes(s) == [i \in 1..Len(s) |-> IF s[i] = "'" THEN "\"" ELSE s[i]]

\* lines 252-273: the arguments of the directive; the empty dict when there
\* is no payload or when the strict parse and the repaired parse both fail
ParseArgs(response_text) ==
    LET args_str == ArgsMatch(response_text)
    IN  IF args_str = NoMatch THEN EmptyDict
        ELSE IF json_loads(args_str).ok THEN json_loads(args_str).val
        ELSE IF json_loads(ReplaceQuotes(args_str)).ok
             THEN json_loads(ReplaceQuotes(args_str)).val
        ELSE EmptyDict


(***************************************************************************)
(* Calling a tool attribute with the parsed keyword arguments (line 282).   *)
(* Every tool body catches its own exceptions and returns a text, so the   *)
(* call raises exactly when the attribute is not callable or the argument  *)
(* keys do not fit the signature (TypeError).                              *)
(***************************************************************************)
Required(tool_name) ==
    CASE tool_name = "get_weather" -> {"city"}
      [] tool_name = "get_crypto_price" -> {"coin"}
      [] tool_name = "web_search" -> {"query"}
      [] tool_name = "http_request" -> {"method", "url"}
      [] tool_name = "read_file" -> {"file_path"}
      [] tool_name = "write_file" -> {"file_path", "content"}
      [] tool_name = "run_terminal_command" -> {"command"}
      [] tool_name = "get_exchange_rate" -> {"from_currency", "to_currency"}
      [] tool_name = "generate_qr_code" -> {"data"}
      [] tool_name = "add_reminder" -> {"text"}
      [] tool_name = "delete_reminder" -> {"reminder_id"}
      [] tool_name = "calculate" -> {"expression"}
      [] tool_name \in PrivateMethods -> {"from_curr", "to_curr", "amount"}
      [] OTHER -> {}

Optional(tool_name) ==
    CASE tool_name = "get_crypto_price" -> {"currency"}
      [] tool_name = "web_search" -> {"max_results"}
      [] tool_name = "http_request" -> {"headers", "data", "params"}
      [] tool_name = "read_file" -> {"max_lines"}
      [] tool_name = "write_file" -> {"append"}
      [] tool_name = "list_directory" -> {"directory_path"}
      [] tool_name = "run_terminal_command" -> {"cwd"}
      [] tool_name = "get_exchange_rate" -> {"amount"}
      [] tool_name = "generate_qr_code" -> {"filename"}
      [] tool_name = "add_reminder" -> {"date_time"}
      [] tool_name = "list_reminders" -> {"show_completed"}
      [] OTHER -> {}

Callable(tool_name) == tool_name \in ToolMethods \cup PrivateMethods

\* the keyword arguments bind to the parameters of the method
FitsSignature(tool_name, args) ==
    /\ \A k \in DOMAIN args :
          Len(k) = 1 /\ k[1] \in Required(tool_name) \cup Optional(tool_name)
    /\ \A r \in Required(tool_name) : <<r>> \in DOMAIN args

\* the call of line 282 raises
CallRaises(tool_name, args) ==
    ~Callable(tool_name) \/ ~FitsSignature(tool_name, args)

\* what a tool body does with fitting arguments: it yields a text
ToolOutcomes == {"success"}

ToolResult(tool_name, outcome) ==
    IF outcome = "success" THEN <<"Result of", " ", tool_name>>
    ELSE <<"Error in", " ", tool_name>>

NotDetermined == <<"Could not determine the tool">>
ArgsDiagnostic(tool_name) ==
    <<"Could not extract arguments for tool", " ", tool_name, ".", " ",
      "Check the ARGS format.">>
NotFound(tool_name) == <<"Tool", " ", "'", tool_name, "'", " ", "not found">>
ToolError(e) == <<"Tool execution error:", " ", e>>

ArgsGiven_always(a) == TRUE
\* line 281: if args
ArgsGiven(a) == a # EmptyDict

ToolExceptionCaught_not == FALSE
\* lines 292-297: except Exception around the whole dispatch
ToolExceptionCaught == TRUE

\* _execute_tool_from_response(response_text), given what the tool body
\* would do: the returned text, whether line 282 called the attribute, and
\* whether an exception leaves the function
ExecuteToolFromResponse(response_text, outcome) ==
    LET tool_match == ToolMatch(response_text)
        tool_name == tool_match[1]
        args == ParseArgs(response_text)
    IN  IF tool_match = NoMatch
        THEN [result |-> NotDetermined, called |-> FALSE, raised |-> FALSE]
        ELSE IF ~hasattr(tool_name)
        THEN [result |-> NotFound(tool_name), called |-> FALSE,
              raised |-> FALSE]
        ELSE IF ~ArgsGiven(args)
        THEN [result |-> ArgsDiagnostic(tool_name), called |-> FALSE,
              raised |-> FALSE]
        ELSE IF CallRaises(tool_name, args)
        THEN [result |-> ToolError("TypeError"), called |-> TRUE,
              raised |-> ~ToolExceptionCaught]
        ELSE [result |-> ToolResult(tool_name, outcome), called |-> TRUE,
              raised |-> FALSE]

(***************************************************************************)
(* Messages, the conversation memory and its persisted form.               *)
(***************************************************************************)
HumanMessage(content) == [cls |-> "HumanMessage", content |-> content]
AIMessage_as_human(content) == [cls |-> "HumanMessage", content |-> content]
AIMessage(content) == [cls |-> "AIMessage", content |-> content]
SystemMessage(content) == [cls |-> "SystemMessage", content |-> content]

system_prompt == <<"system_prompt">>

LastN_first(messages, n) ==
    IF Len(messages) <= n THEN messages ELSE SubSeq(messages, 1, n)
\* messages[-n:]
LastN(messages, n) ==
    IF Len(messages) <= n THEN messages
    ELSE SubSeq(messages, Len(messages) - n + 1, Len(messages))

\* line 219: the tool result framed as a new instruction
FrameResult_dropped(tool_response) ==
    <<"Execution result:", " ", "\n", "\n",
      "Give the user a clear answer based on this result.", " ",
      "Do NOT call other tools.">>
FrameResult(tool_response) ==
    <<"Execution result:", " ">> \o tool_response \o
    <<"\n", "\n", "Give the user a clear answer based on this result.", " ",
      "Do NOT call other tools.">>

ErrorMsg_generic(e) == <<"An error occurred while processing the request:">>
\* line 232: the diagnostic of the orchestration boundary
ErrorMsg(e) == <<"An error occurred while processing the request:", " ", e>>

MessagesData_window(messages) ==
    [i \in 1..Len(LastN(messages, HistoryWindow)) |->
        [type |-> IF LastN(messages, HistoryWindow)[i].cls = "HumanMessage"
                  THEN "human" ELSE "ai",
         content |-> LastN(messages, HistoryWindow)[i].content]]

\* _save_memory, lines 158-171: the records written for the messages
RECURSIVE MessagesData(_)
MessagesData(messages) ==
    IF messages = <<>> THEN <<>>
    ELSE LET msg == Head(messages)
         IN  (IF msg.cls = "HumanMessage"
              THEN <<[type |-> "human", content |-> msg.content]>>
              ELSE IF msg.cls = "AIMessage"
              THEN <<[type |-> "ai", content |-> msg.content]>>
              ELSE <<>>) \o MessagesData(Tail(messages))

LoadRecords_roles_swapped(messages_data) ==
    [i \in 1..Len(messages_data) |->
        IF messages_data[i].type = "human"
        THEN [cls |-> "AIMessage", content |-> messages_data[i].content]
        ELSE [cls |-> "HumanMessage", content |-> messages_data[i].content]]

\* _load_memory, lines 144-151: the messages added for the records.  A
\* record without the key 'type', or a human or ai record without the key
\* 'content', raises KeyError inside the try block of line 140: the except
\* block of line 150 is outside the loop, so the loop ends there and the
\* messages added so far stay.
RECURSIVE LoadRecords(_)
LoadRecords(messages_data) ==
    IF messages_data = <<>> THEN <<>>
    ELSE LET msg_data == Head(messages_data)
         IN  IF "type" \notin DOMAIN msg_data THEN <<>>
             ELSE IF msg_data.type \notin {"human", "ai"}
             THEN LoadRecords(Tail(messages_data))
             ELSE IF "content" \notin DOMAIN msg_data THEN <<>>
             ELSE (IF msg_data.type = "human"
                   THEN <<HumanMessage(msg_data.content)>>
                   ELSE <<AIMessage(msg_data.content)>>)
                  \o LoadRecords(Tail(messages_data))

\* get_conversation_history, lines 299-313
RECURSIVE ConversationHistory(_)
ConversationHistory(messages) ==
    IF messages = <<>> THEN <<>>
    ELSE LET msg == Head(messages)
         IN  (IF msg.cls = "HumanMessage"
              THEN <<[role |-> "user", content |-> msg.content]>>
              ELSE IF msg.cls = "AIMessage"
              THEN <<[role |-> "assistant", content |-> msg.content]>>
              ELSE <<>>) \o ConversationHistory(Tail(messages))

\* line 76: every agent uses memory.json next to agent.py
memory_file(agent) == "memory.json"
Paths == {memory_file(a) : a \in AgentIds}

NoFile == [exists |-> FALSE, data |-> <<>>]
File(data) == [exists |-> TRUE, data |-> data]

\* json.dump and json.load on the text of a content: a quote, a newline and
\* a backslash are written as escape sequences and read back from them
EscapeToken(tok) ==
    CASE tok = "\"" -> "\\\""
      [] tok = "\n" -> "\\n"
      [] tok = "\\" -> "\\\\"
      [] OTHER -> tok
UnescapeToken(tok) ==
    CASE tok = "\\\"" -> "\""
      [] tok = "\\n" -> "\n"
      [] tok = "\\\\" -> "\\"
      [] OTHER -> tok

\* line 174: json.dump(messages_data, f): the records as the file holds them
JsonDump(messages_data) ==
    [i \in 1..Len(messages_data) |->
        [type |-> messages_data[i].type,
         content |-> [k \in 1..Len(messages_data[i].content) |->
                         EscapeToken(messages_data[i].content[k])]]]

\* line 142: json.load(f): the records read from the file
JsonLoad(data) ==
    [i \in 1..Len(data) |->
        IF "content" \in DOMAIN data[i]
        THEN [data[i] EXCEPT
                 !.content = [k \in 1..Len(@) |-> UnescapeToken(@[k])]]
        ELSE data[i]]

SaveMemoryCatches_not == FALSE
\* lines 176-177: except Exception around the whole save
SaveMemoryCatches == TRUE


(***************************************************************************)
(* Inputs: the texts of the users and the completions of the model.        *)
(***************************************************************************)
UserText(u) == <<"query of", " ", u>>

PlainAnswer == <<"The", " ", "answer", ".">>
CalcDirective ==
    <<"TOOL:", " ", "calculate", "\n",
      "ARGS:", " ", "{", "\"", "expression", "\"", ":", " ",
      "\"", "2", "+", "2", "\"", "}">>
BadArgsDirective ==
    <<"TOOL:", " ", "calculate", "\n", "ARGS:", " ", "{", "expression", "}">>
UnknownToolDirective ==
    <<"TOOL:", " ", "get_time", "\n",
      "ARGS:", " ", "{", "\"", "city", "\"", ":", " ", "\"", "Paris", "\"", "}">>
WrongKeysDirective ==
    <<"TOOL:", " ", "calculate", "\n",
      "ARGS:", " ", "{", "\"", "city", "\"", ":", " ", "\"", "Paris", "\"", "}">>

\* a completion with the marker whose dispatch yields no result of a tool
FaultyDirective(text) ==
    /\ ContainsToolMarker(text)
    /\ \/ ToolMatch(text) = NoMatch
       \/ ExecuteToolFromResponse(text, "success").result
              # ToolResult(ToolMatch(text)[1], "success")

LLMTexts ==
    {PlainAnswer, CalcDirective, BadArgsDirective, UnknownToolDirective,
     WrongKeysDirective}

\* Completions built from a tool name, an argument payload and a layout of
\* the two markers in the text.
DirectiveNames ==
    {"calculate", "list_reminders", "get_time", "_get_rate_cbr",
     "safe_commands", "__init__"}

ExprPayload ==
    <<"{", "\"", "expression", "\"", ":", " ", "\"", "2", "+", "2", "\"", "}">>
RatePayload ==
    <<"{", "\"", "from_curr", "\"", ":", " ", "\"", "USD", "\"", ",", " ",
      "\"", "to_curr", "\"", ":", " ", "\"", "RUB", "\"", ",", " ",
      "\"", "amount", "\"", ":", " ", "1", "}">>
FlagPayload == <<"{", "\"", "show_completed", "\"", ":", " ", "true", "}">>
SingleQuotePayload ==
    <<"{", "'", "expression", "'", ":", " ", "'", "2", "+", "2", "'", "}">>
\* single-quoted, with escaped apostrophes inside the value: 'len(\'a\')'
EscapedQuotePayload ==
    <<"{", "'", "expression", "'", ":", " ",
      "'", "len", "(", "\\", "'", "a", "\\", "'", ")", "'", "}">>
BarePayload == <<"{", "expression", "}">>
EmptyPayload == <<"{", "}">>
SpacedEmptyPayload == <<"{", " ", "}">>
Payloads ==
    {ExprPayload, RatePayload, FlagPayload, SingleQuotePayload,
     EscapedQuotePayload, BarePayload, EmptyPayload, SpacedEmptyPayload}

Layouts ==
    {"directive", "after_prose", "in_prose", "mention", "no_args",
     "trailing_text", "trailing_line", "args_first"}

TextOf(layout, name, payload) ==
    CASE layout = "directive" ->
             <<"TOOL:", " ", name, "\n", "ARGS:", " ">> \o payload
      [] layout = "after_prose" ->
             <<"Let", " ", "me", " ", "check", ".", "\n",
               "TOOL:", " ", name, "\n", "ARGS:", " ">> \o payload
      [] layout = "in_prose" ->
             <<"I", " ", "use", " ", "TOOL:", " ", name, " ", "now", "\n",
               "ARGS:", " ">> \o payload
      [] layout = "mention" ->
             <<"Write", " ", "TOOL:", " ", name, " ", "to", " ", "call",
               " ", "it", ".">>
      [] layout = "no_args" -> <<"TOOL:", " ", name>>
      [] layout = "trailing_text" ->
             <<"TOOL:", " ", name, "\n", "ARGS:", " ">> \o payload
             \o <<" ", "please">>
      [] layout = "trailing_line" ->
             <<"TOOL:", " ", name, "\n", "ARGS:", " ">> \o payload
             \o <<"\n", "Done", ".">>
      [] layout = "args_first" ->
             <<"ARGS:", " ">> \o payload \o <<"\n", "TOOL:", " ", name>>

ParserTexts ==
    {PlainAnswer} \cup
    {TextOf(l, n, p) : l \in Layouts, n \in DirectiveNames, p \in Payloads}

\* what memory.json holds when the process starts: a fresh installation
StartFiles == {NoFile}

\* what memory.json may hold when the process starts again: the records of
\* an earlier run that fill the history window, or records of which one
\* lacks a key
EarlierTurns ==
    <<[type |-> "human", content |-> <<"earlier", " ", "query">>],
      [type |-> "ai", content |-> <<"earlier", " ", "answer">>]>>
LongRun ==
    EarlierTurns \o EarlierTurns \o EarlierTurns \o EarlierTurns
    \o EarlierTurns
NoTypeRun ==
    <<[type |-> "human", content |-> <<"first", " ", "query">>],
      [content |-> <<"first", " ", "answer">>],
      [type |-> "human", content |-> <<"second", " ", "query">>],
      [type |-> "ai", content |-> <<"second", " ", "answer">>]>>
NoContentRun ==
    <<[type |-> "human", content |-> <<"first", " ", "query">>],
      [type |-> "ai"],
      [type |-> "human", content |-> <<"second", " ", "query">>],
      [type |-> "ai", content |-> <<"second", " ", "answer">>]>>
RestartFiles == {File(LongRun), File(NoTypeRun), File(NoContentRun)}

(***************************************************************************)
(* State.                                                                  *)
(***************************************************************************)
VARIABLES
    fs,                   \* path -> file (exists, data)
    user_agents,          \* bot.py: user id -> agent, NoAgent when absent
    agent_count,          \* number of AIAgent objects constructed
    conversation_memory,  \* agent -> chat_memory.messages
    pc,                   \* handler -> position in its handler function
    huser,                \* handler -> user id of the message being handled
    agent,                \* handler -> the agent get_user_agent returned
    messages,             \* handler -> local list messages of process_query
    response_text,        \* handler -> local response_text
    iteration,            \* handler -> local iteration
    tool_response,        \* handler -> local tool_response
    exc,                  \* handler -> the exception being handled, or NoExc
    error_msg,            \* handler -> local error_msg of the except block
    result,               \* handler -> the value process_query returned
    completions,          \* handler -> llm.invoke calls of this process_query
    tool_calls,           \* handler -> tool attributes called in this call
    save_failed,          \* handler -> the last _save_memory failed to write
    messages_data,        \* handler -> local messages_data of _save_memory
    stale,                \* handler -> messages_data was built before a
                          \* clear_memory of the same agent began (history)
    args,                 \* handler -> local args of the last dispatch
    cleared,              \* user -> a /clear of the user was handled and no
                          \* message of the user since (history)
    reminders,            \* tools.py: the list in temp/reminders.json
    received,             \* messages and commands handed to the handlers so far
    directives,           \* completions with a TOOL: marker emitted so far
    faulty                \* those of them that led to no successful tool call

vars ==
    <<fs, user_agents, agent_count, conversation_memory, pc, huser, agent,
      messages, response_text, iteration, tool_response, exc, error_msg,
      result, completions, tool_calls, save_failed, messages_data, stale,
      args, cleared, reminders, received, directives, faulty>>

shared == <<fs, user_agents, agent_count, conversation_memory>>
snapshot == <<messages_data, stale>>
locals ==
    <<messages, response_text, iteration, tool_response, exc, error_msg,
      result, completions, tool_calls, save_failed, snapshot>>

counters == <<received, directives, faulty>>
extra == <<args, cleared, reminders>>

NoExc == "none"
NoText == <<>>
NoUser == "nobody"

InitFrom(files) ==
    /\ fs \in [Paths -> files]
    /\ user_agents = [u \in Users |-> NoAgent]
    /\ agent_count = 0
    /\ conversation_memory = [a \in AgentIds |-> <<>>]
    /\ pc = [h \in Handlers |-> "idle"]
    /\ huser = [h \in Handlers |-> NoUser]
    /\ agent = [h \in Handlers |-> NoAgent]
    /\ messages = [h \in Handlers |-> <<>>]
    /\ response_text = [h \in Handlers |-> NoText]
    /\ iteration = [h \in Handlers |-> 0]
    /\ tool_response = [h \in Handlers |-> NoText]
    /\ exc = [h \in Handlers |-> NoExc]
    /\ error_msg = [h \in Handlers |-> NoText]
    /\ result = [h \in Handlers |-> NoText]
    /\ completions = [h \in Handlers |-> 0]
    /\ tool_calls = [h \in Handlers |-> 0]
    /\ save_failed = [h \in Handlers |-> FALSE]
    /\ messages_data = [h \in Handlers |-> <<>>]
    /\ stale = [h \in Handlers |-> FALSE]
    /\ args = [h \in Handlers |-> <<>>]
    /\ cleared = [u \in Users |-> FALSE]
    /\ reminders = <<>>
    /\ received = 0
    /\ directives = 0
    /\ faulty = 0

Init == InitFrom(StartFiles)

\* the process starts with a memory.json left by an earlier process
InitRestart == InitFrom(RestartFiles)

\* the locals of a fresh process_query call
ResetLocals(h) ==
    /\ messages' = [messages EXCEPT ![h] = <<>>]
    /\ response_text' = [response_text EXCEPT ![h] = NoText]
    /\ iteration' = [iteration EXCEPT ![h] = 0]
    /\ tool_response' = [tool_response EXCEPT ![h] = NoText]
    /\ exc' = [exc EXCEPT ![h] = NoExc]
    /\ error_msg' = [error_msg EXCEPT ![h] = NoText]
    /\ result' = [result EXCEPT ![h] = NoText]
    /\ completions' = [completions EXCEPT ![h] = 0]
    /\ tool_calls' = [tool_calls EXCEPT ![h] = 0]
    /\ save_failed' = [save_failed EXCEPT ![h] = FALSE]
    /\ messages_data' = [messages_data EXCEPT ![h] = <<>>]
    /\ stale' = [stale EXCEPT ![h] = FALSE]
    /\ args' = [args EXCEPT ![h] = <<>>]

(***************************************************************************)
(* bot.py: handle_message and get_user_agent.                              *)
(***************************************************************************)
\* handle_message, lines 112-121: a text message of user u arrives
ReceiveMessage(h, u) ==
    /\ pc[h] = "idle"
    /\ received < MaxMessages
    /\ received' = received + 1
    /\ huser' = [huser EXCEPT ![h] = u]
    /\ pc' = [pc EXCEPT ![h] = "lookup"]
    /\ ResetLocals(h)
    /\ UNCHANGED <<shared, agent, directives, faulty>>
    /\ cleared' = [cleared EXCEPT ![u] = FALSE]
    /\ UNCHANGED reminders

\* get_user_agent, lines 41 and 44: the agent of the user exists
LookupAgent(h) ==
    /\ pc[h] = "lookup"
    /\ IF user_agents[huser[h]] # NoAgent
       THEN /\ agent' = [agent EXCEPT ![h] = user_agents[huser[h]]]
            /\ pc' = [pc EXCEPT ![h] = "begin"]
       ELSE /\ pc' = [pc EXCEPT ![h] = "construct"]
            /\ UNCHANGED agent
    /\ UNCHANGED <<shared, huser, locals, counters>>
    /\ UNCHANGED extra

\* _load_memory, lines 135-153, on file f
LoadFile(f) == IF f.exists THEN LoadRecords(JsonLoad(f.data)) ELSE <<>>

\* _load_memory of a new agent a
LoadMemory(a) == LoadFile(fs[memory_file(a)])

\* get_user_agent, lines 42-44: AIAgent() loads the memory file and the new
\* agent is put into the map
ConstructAgent(h) ==
    /\ pc[h] = "construct"
    /\ agent_count < Cardinality(AgentIds)
    /\ LET a == agent_count + 1
       IN  /\ agent_count' = a
           /\ conversation_memory' =
                  [conversation_memory EXCEPT ![a] = LoadMemory(a)]
           /\ user_agents' = [user_agents EXCEPT ![huser[h]] = a]
           /\ agent' = [agent EXCEPT ![h] = a]
    /\ pc' = [pc EXCEPT ![h] = "begin"]
    /\ UNCHANGED <<fs, huser, locals, counters>>
    /\ UNCHANGED extra

(***************************************************************************)
(* agent.py: AIAgent.process_query.                                        *)
(***************************************************************************)
\* lines 191-198: the user message is added and the prompt is built
ProcessQueryBegin(h) ==
    /\ pc[h] = "begin"
    /\ LET mem == Append(conversation_memory[agent[h]],
                         HumanMessage(UserText(huser[h])))
       IN  /\ conversation_memory' =
                  [conversation_memory EXCEPT ![agent[h]] = mem]
           /\ messages' =
                  [messages EXCEPT
                      ![h] = <<SystemMessage(system_prompt)>>
                             \o LastN(mem, HistoryWindow)]
    /\ pc' = [pc EXCEPT ![h] = "invoke"]
    /\ UNCHANGED <<fs, user_agents, agent_count, huser, agent, response_text,
                   iteration, tool_response, exc, error_msg, result,
                   completions, tool_calls, save_failed, snapshot, counters>>
    /\ UNCHANGED extra

\* lines 201-202 and 221-222: self.llm.invoke(messages) returns a text
LLMReturns(h, text) ==
    /\ pc[h] = "invoke"
    /\ ContainsToolMarker(text) => directives < MaxDirectives
    /\ FaultyDirective(text) => faulty < MaxFaulty
    /\ directives' = IF ContainsToolMarker(text) THEN directives + 1
                     ELSE directives
    /\ faulty' = IF FaultyDirective(text) THEN faulty + 1 ELSE faulty
    /\ completions' = [completions EXCEPT ![h] = @ + 1]
    /\ response_text' = [response_text EXCEPT ![h] = text]
    /\ pc' = [pc EXCEPT ![h] = "loop"]
    /\ UNCHANGED <<shared, huser, agent, messages, iteration, tool_response,
                   exc, error_msg, result, tool_calls, save_failed, snapshot,
                   received>>
    /\ UNCHANGED extra

\* lines 201 and 221: self.llm.invoke(messages) raises
LLMFails(h) ==
    /\ pc[h] = "invoke"
    /\ completions' = [completions EXCEPT ![h] = @ + 1]
    /\ exc' = [exc EXCEPT ![h] = "APIError"]
    /\ pc' = [pc EXCEPT ![h] = "except"]
    /\ UNCHANGED <<shared, huser, agent, messages, response_text, iteration,
                   tool_response, error_msg, result, tool_calls, save_failed,
                   snapshot, counters>>
    /\ UNCHANGED extra

LoopCondition_unbounded(h) == ContainsToolMarker(response_text[h])
\* line 208: the condition of the while loop
LoopCondition(h) ==
    ContainsToolMarker(response_text[h]) /\ iteration[h] < max_iterations

\* lines 208-219: one iteration up to the next llm.invoke
LoopIterate(h, outcome) ==
    /\ pc[h] = "loop"
    /\ LoopCondition(h)
    /\ iteration' = [iteration EXCEPT ![h] = @ + 1]
    /\ LET r == ExecuteToolFromResponse(response_text[h], outcome)
       IN  /\ tool_calls' =
                  [tool_calls EXCEPT ![h] = IF r.called THEN @ + 1 ELSE @]
           /\ IF r.raised
              THEN /\ exc' = [exc EXCEPT ![h] = "TypeError"]
                   /\ pc' = [pc EXCEPT ![h] = "except"]
                   /\ UNCHANGED <<tool_response, messages>>
              ELSE /\ tool_response' = [tool_response EXCEPT ![h] = r.result]
                   /\ messages' =
                          [messages EXCEPT
                              ![h] = @ \o
                                  <<AIMessage(response_text[h]),
                                    HumanMessage(FrameResult(r.result))>>]
                   /\ pc' = [pc EXCEPT ![h] = "invoke"]
                   /\ UNCHANGED exc
    /\ UNCHANGED <<shared, huser, agent, response_text, error_msg, result,
                   completions, save_failed, snapshot, counters>>
    /\ args' = [args EXCEPT
                   ![h] = IF ToolMatch(response_text[h]) = NoMatch THEN <<>>
                          ELSE ParseArgs(response_text[h])]
    /\ UNCHANGED <<cleared, reminders>>

\* line 208: the loop ends
LoopExit(h) ==
    /\ pc[h] = "loop"
    /\ ~LoopCondition(h)
    /\ pc' = [pc EXCEPT ![h] = "answer"]
    /\ UNCHANGED <<shared, huser, agent, locals, counters>>
    /\ UNCHANGED extra

\* line 226: the answer is added to the memory
AppendAnswer(h) ==
    /\ pc[h] = "answer"
    /\ conversation_memory' =
           [conversation_memory EXCEPT
               ![agent[h]] = Append(@, AIMessage(response_text[h]))]
    /\ pc' = [pc EXCEPT ![h] = "save"]
    /\ UNCHANGED <<fs, user_agents, agent_count, huser, agent, locals,
                   counters>>
    /\ UNCHANGED extra

\* lines 231-235: the handler of the orchestration boundary
ExceptHandler(h) ==
    /\ pc[h] = "except"
    /\ error_msg' = [error_msg EXCEPT ![h] = ErrorMsg(exc[h])]
    /\ conversation_memory' =
           [conversation_memory EXCEPT
               ![agent[h]] = Append(@, AIMessage(ErrorMsg(exc[h])))]
    /\ pc' = [pc EXCEPT ![h] = "save_error"]
    /\ UNCHANGED <<fs, user_agents, agent_count, huser, agent, messages,
                   response_text, iteration, tool_response, exc, result,
                   completions, tool_calls, save_failed, snapshot, counters>>
    /\ UNCHANGED extra

\* _save_memory, lines 158-171, called at line 227 or 236: the records of
\* the messages are collected
BuildMessagesData(h) ==
    /\ pc[h] \in {"save", "save_error"}
    /\ messages_data' =
           [messages_data EXCEPT
               ![h] = MessagesData(conversation_memory[agent[h]])]
    /\ stale' = [stale EXCEPT ![h] = FALSE]
    /\ pc' = [pc EXCEPT
                 ![h] = IF pc[h] = "save" THEN "write" ELSE "write_error"]
    /\ UNCHANGED <<shared, huser, agent, messages, response_text, iteration,
                   tool_response, exc, error_msg, result, completions,
                   tool_calls, save_failed, counters>>
    /\ UNCHANGED extra

\* _save_memory, lines 173-177: the file is rewritten with the collected
\* records, or the write fails
WriteFile(h, write_fails) ==
    /\ pc[h] \in {"write", "write_error"}
    /\ save_failed' = [save_failed EXCEPT ![h] = write_fails]
    /\ fs' = IF write_fails THEN fs
             ELSE [fs EXCEPT
                      ![memory_file(agent[h])] =
                          File(JsonDump(messages_data[h]))]
    /\ IF write_fails /\ ~SaveMemoryCatches
       THEN /\ exc' = [exc EXCEPT ![h] = "OSError"]
            /\ pc' = [pc EXCEPT
                         ![h] = IF pc[h] = "write" THEN "except" ELSE "raised"]
       ELSE /\ pc' = [pc EXCEPT
                         ![h] = IF pc[h] = "write" THEN "return"
                                ELSE "return_error"]
            /\ UNCHANGED exc
    /\ UNCHANGED <<user_agents, agent_count, conversation_memory, huser,
                   agent, messages, response_text, iteration, tool_response,
                   error_msg, result, completions, tool_calls, snapshot,
                   counters>>
    /\ UNCHANGED extra

\* lines 229 and 238: process_query returns response_text or error_msg
Return(h) ==
    /\ pc[h] \in {"return", "return_error"}
    /\ result' = [result EXCEPT
                     ![h] = IF pc[h] = "return" THEN response_text[h]
                            ELSE error_msg[h]]
    /\ pc' = [pc EXCEPT ![h] = "returned"]
    /\ UNCHANGED <<shared, huser, agent, messages, response_text, iteration,
                   tool_response, exc, error_msg, completions,
                   tool_calls, save_failed, snapshot, counters>>
    /\ UNCHANGED extra

\* handle_message, lines 130-145: the answer, or the error, is sent
Reply(h) ==
    /\ pc[h] \in {"returned", "raised"}
    /\ pc' = [pc EXCEPT ![h] = "idle"]
    /\ huser' = [huser EXCEPT ![h] = NoUser]
    /\ agent' = [agent EXCEPT ![h] = NoAgent]
    /\ ResetLocals(h)
    /\ UNCHANGED <<shared, counters>>
    /\ UNCHANGED <<cleared, reminders>>

(***************************************************************************)
(* bot.py: clear_history, and agent.py: clear_memory.                      *)
(***************************************************************************)
\* clear_history, lines 76-81: /clear of user u
ReceiveClear(h, u) ==
    /\ pc[h] = "idle"
    /\ received < MaxMessages
    /\ received' = received + 1
    /\ IF user_agents[u] # NoAgent
       THEN /\ huser' = [huser EXCEPT ![h] = u]
            /\ agent' = [agent EXCEPT ![h] = user_agents[u]]
            /\ pc' = [pc EXCEPT ![h] = "clear"]
            /\ UNCHANGED cleared
            /\ stale' =
                   [g \in Handlers |->
                       \/ stale[g]
                       \/ /\ g # h
                          /\ agent[g] = user_agents[u]
                          /\ pc[g] \in {"write", "write_error"}
                          /\ messages_data[g] # <<>>]
       ELSE /\ cleared' = [cleared EXCEPT ![u] = TRUE]
            /\ UNCHANGED <<huser, agent, pc, stale>>
    /\ UNCHANGED <<shared, messages, response_text, iteration, tool_response,
                   exc, error_msg, result, completions, tool_calls,
                   save_failed, messages_data, directives, faulty>>
    /\ UNCHANGED <<args, reminders>>

\* clear_memory, line 317
ClearMemory(h) ==
    /\ pc[h] = "clear"
    /\ conversation_memory' = [conversation_memory EXCEPT ![agent[h]] = <<>>]
    /\ pc' = [pc EXCEPT ![h] = "remove"]
    /\ UNCHANGED <<fs, user_agents, agent_count, huser, agent, locals,
                   counters>>
    /\ UNCHANGED extra

RemovedFile_kept(f) == f
\* lines 318-319: os.remove of the file when it exists
RemovedFile(f) == NoFile

\* clear_memory, lines 318-320
RemoveFile(h) ==
    /\ pc[h] = "remove"
    /\ fs' = [fs EXCEPT ![memory_file(agent[h])] = RemovedFile(@)]
    /\ pc' = [pc EXCEPT ![h] = "idle"]
    /\ huser' = [huser EXCEPT ![h] = NoUser]
    /\ agent' = [agent EXCEPT ![h] = NoAgent]
    /\ UNCHANGED <<user_agents, agent_count, conversation_memory, locals,
                   counters>>
    /\ cleared' = [cleared EXCEPT ![huser[h]] = TRUE]
    /\ UNCHANGED <<args, reminders>>

(***************************************************************************)
(* bot.py: show_history.                                                   *)
(***************************************************************************)
\* show_history, lines 87-88: /history of user u; get_user_agent gives the
\* agent of the user and constructs one, which loads the file, when the
\* map holds none
ReceiveHistory(h, u) ==
    /\ pc[h] = "idle"
    /\ received < MaxMessages
    /\ received' = received + 1
    /\ huser' = [huser EXCEPT ![h] = u]
    /\ IF user_agents[u] # NoAgent
       THEN /\ agent' = [agent EXCEPT ![h] = user_agents[u]]
            /\ UNCHANGED <<user_agents, agent_count, conversation_memory>>
       ELSE /\ agent_count < Cardinality(AgentIds)
            /\ LET a == agent_count + 1
               IN  /\ agent_count' = a
                   /\ conversation_memory' =
                          [conversation_memory EXCEPT ![a] = LoadMemory(a)]
                   /\ user_agents' = [user_agents EXCEPT ![u] = a]
                   /\ agent' = [agent EXCEPT ![h] = a]
    /\ pc' = [pc EXCEPT ![h] = "history"]
    /\ UNCHANGED <<fs, locals, directives, faulty>>
    /\ UNCHANGED extra

\* show_history, lines 90-106: the history of the agent, or the notice
\* that it is empty, is sent
ShowHistory(h) ==
    /\ pc[h] = "history"
    /\ pc' = [pc EXCEPT ![h] = "idle"]
    /\ huser' = [huser EXCEPT ![h] = NoUser]
    /\ agent' = [agent EXCEPT ![h] = NoAgent]
    /\ UNCHANGED <<shared, locals, counters>>
    /\ UNCHANGED extra

(***************************************************************************)
(* tools.py: the reminders kept in temp/reminders.json.  The variable      *)
(* reminders is the list in the file, the empty list when there is no      *)
(* file; a record keeps the id and the text of a reminder.                 *)
(***************************************************************************)
ReminderTexts == {"call", "pay"}

\* add_reminder, lines 537-557: the id is the length of the list plus one
AddReminder(text) ==
    /\ Len(reminders) < MaxReminders
    /\ reminders' =
           Append(reminders,
                  [id |-> Len(reminders) + 1, text |-> text,
                   completed |-> FALSE])
    /\ UNCHANGED <<shared, pc, huser, agent, locals, counters, args, cleared>>

\* line 627: the records whose id is not reminder_id
WithoutId(rs, reminder_id) ==
    SelectSeq(rs, LAMBDA r : r.id # reminder_id)

\* delete_reminder, lines 625-639
DeleteReminder(reminder_id) ==
    /\ reminders' = WithoutId(reminders, reminder_id)
    /\ UNCHANGED <<shared, pc, huser, agent, locals, counters, args, cleared>>

Step(h) ==
    \/ \E u \in Users : ReceiveMessage(h, u)
    \/ LookupAgent(h)
    \/ ConstructAgent(h)
    \/ ProcessQueryBegin(h)
    \/ \E text \in LLMTexts : LLMReturns(h, text)
    \/ LLMFails(h)
    \/ \E outcome \in ToolOutcomes : LoopIterate(h, outcome)
    \/ LoopExit(h)
    \/ AppendAnswer(h)
    \/ ExceptHandler(h)
    \/ BuildMessagesData(h)
    \/ \E write_fails \in BOOLEAN : WriteFile(h, write_fails)
    \/ Return(h)
    \/ Reply(h)
    \/ \E u \in Users : ReceiveClear(h, u)
    \/ ClearMemory(h)
    \/ RemoveFile(h)

\* one worker thread: the messages of the users are handled one after another
Next == Step("h1")

Spec == Init /\ [][Next]_vars

\* the completions offered where the case at hand is not in the parsing of
\* the completion: an answer and a directive that calls a tool
CommonTexts == {PlainAnswer, CalcDirective}

CommonStep(h) ==
    \/ \E u \in Users : ReceiveMessage(h, u)
    \/ LookupAgent(h)
    \/ ConstructAgent(h)
    \/ ProcessQueryBegin(h)
    \/ \E text \in CommonTexts : LLMReturns(h, text)
    \/ LLMFails(h)
    \/ \E outcome \in ToolOutcomes : LoopIterate(h, outcome)
    \/ LoopExit(h)
    \/ AppendAnswer(h)
    \/ ExceptHandler(h)
    \/ BuildMessagesData(h)
    \/ \E write_fails \in BOOLEAN : WriteFile(h, write_fails)
    \/ Return(h)
    \/ Reply(h)
    \/ \E u \in Users : ReceiveClear(h, u)
    \/ ClearMemory(h)
    \/ RemoveFile(h)

\* the worker threads of the bot: handlers run interleaved
NextThreads == \E h \in Handlers : CommonStep(h)

SpecThreads == Init /\ [][NextThreads]_vars

\* the bot started on an existing memory.json, its messages handled one
\* after another
NextRestart ==
    \/ CommonStep("h1")
    \/ \E u \in Users : ReceiveHistory("h1", u)
    \/ ShowHistory("h1")

SpecRestart == InitRestart /\ [][NextRestart]_vars

\* the reminder tools called in any order
NextReminders ==
    \/ \E text \in ReminderTexts : AddReminder(text)
    \/ \E reminder_id \in 1..MaxReminders : DeleteReminder(reminder_id)

SpecReminders == Init /\ [][NextReminders]_vars

\* one process_query call whose first completion is any of ParserTexts and
\* whose later completions hold no marker
ParserStep(h) ==
    \/ received = 0 /\ ReceiveMessage(h, "A")
    \/ LookupAgent(h)
    \/ ConstructAgent(h)
    \/ ProcessQueryBegin(h)
    \/ \E text \in ParserTexts : completions[h] = 0 /\ LLMReturns(h, text)
    \/ completions[h] > 0 /\ LLMReturns(h, PlainAnswer)
    \/ \E outcome \in ToolOutcomes : LoopIterate(h, outcome)
    \/ LoopExit(h)
    \/ AppendAnswer(h)
    \/ BuildMessagesData(h)
    \/ WriteFile(h, FALSE)
    \/ Return(h)
    \/ Reply(h)

NextParser == ParserStep("h1")

SpecParser == Init /\ [][NextParser]_vars


(***************************************************************************)
(* Properties.                                                             *)
(***************************************************************************)
LastOf(seq) == seq[Len(seq)]

ToolMarker == <<"TOOL:">>

\* handler h is in a process_query call that has obtained a completion
InCall(h) ==
    pc[h] \in {"invoke", "loop", "answer", "save", "write", "except",
               "save_error", "write_error", "return", "return_error",
               "returned"}

\* the history that get_conversation_history returns for the agent of h
HistoryOf(h) == ConversationHistory(conversation_memory[agent[h]])

\* C1: within one process_query call at most 3 tool dispatches and at most
\* 4 model completions happen, and when the completion obtained after the
\* 3rd dispatch still holds a TOOL: marker the loop stops and that text is
\* returned verbatim.
C1_IterationCap ==
    \A h \in Handlers :
        /\ iteration[h] <= 3
        /\ tool_calls[h] <= 3
        /\ completions[h] <= 4
        /\ (/\ iteration[h] = 3
            /\ completions[h] = 4
            /\ Contains(response_text[h], ToolMarker)
            /\ exc[h] = NoExc)
           => /\ pc[h] \in {"loop", "answer", "save", "write", "return",
                         "returned"}
              /\ pc[h] = "returned" => result[h] = response_text[h]

C1_Witness ==
    \E h \in Handlers :
        /\ pc[h] = "returned"
        /\ iteration[h] = 3
        /\ completions[h] = 4
        /\ tool_calls[h] = 3
        /\ Contains(result[h], ToolMarker)

\* C2: two distinct users never observe each other's turns: the memory of
\* the agent of a user, and the history window sent to the model for that
\* user (the list messages that llm.invoke receives), hold no user turn of
\* another user.
C2_SessionsIsolated ==
    \A u \in Users, v \in Users :
        u # v =>
            /\ user_agents[u] # NoAgent =>
                   \A i \in 1..Len(conversation_memory[user_agents[u]]) :
                       conversation_memory[user_agents[u]][i]
                           # HumanMessage(UserText(v))
            /\ \A h \in Handlers :
                   huser[h] = u =>
                       \A i \in 1..Len(messages[h]) :
                           messages[h][i] # HumanMessage(UserText(v))

\* C3: a flush or a clear_memory done by one session leaves the persisted
\* history of every other session unchanged.
C3_OtherFilesUnchanged ==
    [][\A h \in Handlers, a \in AgentIds :
          (/\ pc[h] \in {"write", "write_error", "remove"}
           /\ pc'[h] # pc[h]
           /\ a <= agent_count
           /\ a # agent[h])
          => fs'[memory_file(a)] = fs[memory_file(a)]]_vars

\* C4: no exception crosses the process_query boundary: whatever fails
\* (model completion, tool callable, history save), process_query returns a
\* text and does not raise.
C4_NoExceptionEscapes ==
    \A h \in Handlers :
        /\ pc[h] # "raised"
        /\ pc[h] = "returned" => result[h] # NoText

C4_Witness ==
    \E h \in Handlers :
        /\ pc[h] = "returned"
        /\ exc[h] = "APIError"
        /\ save_failed[h]
        /\ tool_calls[h] > 0
        /\ Contains(tool_response[h], <<"TypeError">>)

\* the payload of the directive is there and fails both parses
PayloadUnparseable(text) ==
    /\ ArgsMatch(text) # NoMatch
    /\ ~json_loads(ArgsMatch(text)).ok
    /\ ~json_loads(ReplaceQuotes(ArgsMatch(text))).ok

\* the directive names an attribute of the tools object
NamesToolAttribute(text) ==
    /\ ToolMatch(text) # NoMatch
    /\ ToolMatch(text)[1]
           \in ToolMethods \cup PrivateMethods \cup DataAttributes
                   \cup InheritedAttributes

CouldNotExtract == <<"Could not extract arguments for tool">>

\* C5 as stated: when a directive is detected but its payload cannot be
\* parsed, process_query returns the 'could not extract arguments'
\* diagnostic as the final answer and requests no further completion.
C5_DiagnosticReturnedDirectly ==
    \A h \in Handlers :
        (/\ InCall(h)
         /\ Contains(tool_response[h], CouldNotExtract))
        => /\ pc[h] # "invoke"
           /\ pc[h] = "returned" => Contains(result[h], CouldNotExtract)

\* C5 as amended: when a directive naming a tool attribute is detected but
\* its payload cannot be parsed, no tool callable is invoked, the 'could not
\* extract arguments' diagnostic is the result of the dispatch, and it is
\* put into the prompt of a further completion request instead of being
\* returned.
C5_DiagnosticFedBack ==
    [][\A h \in Handlers :
          (/\ pc[h] = "loop"
           /\ pc'[h] # "loop"
           /\ Contains(response_text[h], ToolMarker)
           /\ iteration[h] < 3
           /\ NamesToolAttribute(response_text[h])
           /\ PayloadUnparseable(response_text[h]))
          => /\ pc'[h] = "invoke"
             /\ tool_calls'[h] = tool_calls[h]
             /\ Contains(tool_response'[h], CouldNotExtract)
             /\ LastOf(messages'[h]).cls = "HumanMessage"
             /\ Contains(LastOf(messages'[h]).content, tool_response'[h])
             /\ conversation_memory' = conversation_memory]_vars

C5_Witness ==
    \E h \in Handlers :
        /\ pc[h] = "returned"
        /\ Contains(tool_response[h], CouldNotExtract)
        /\ completions[h] = 2
        /\ result[h] = PlainAnswer

\* C6: when the first completion holds no TOOL: marker, process_query
\* invokes no tool, requests no second completion and returns that text
\* unchanged.
C6_NoMarkerNoDispatch ==
    \A h \in Handlers :
        (/\ InCall(h)
         /\ completions[h] = 1
         /\ exc[h] = NoExc
         /\ ~Contains(response_text[h], ToolMarker))
        => /\ pc[h] \in {"loop", "answer", "save", "write", "return",
                         "returned"}
           /\ iteration[h] = 0
           /\ tool_calls[h] = 0
           /\ pc[h] = "returned" => result[h] = response_text[h]

C6_Witness ==
    \E h \in Handlers :
        /\ pc[h] = "returned"
        /\ completions[h] = 1
        /\ tool_calls[h] = 0
        /\ result[h] = PlainAnswer

\* C7: on every path without an error, the text process_query returns is
\* the last completion obtained and it is the content of the last turn of
\* the conversation memory, with role assistant.
C7_AnswerIsLastTurn ==
    \A h \in Handlers :
        (pc[h] = "returned" /\ exc[h] = NoExc)
        => /\ completions[h] >= 1
           /\ result[h] = response_text[h]
           /\ HistoryOf(h) # <<>>
           /\ LastOf(HistoryOf(h))
                  = [role |-> "assistant", content |-> result[h]]

C7_Witness ==
    \E h \in Handlers :
        /\ pc[h] = "returned"
        /\ exc[h] = NoExc
        /\ iteration[h] = 1
        /\ tool_calls[h] = 1
        /\ result[h] = PlainAnswer

\* C8: when a model completion fails, process_query records a diagnostic
\* as an assistant turn, flushes the history to the file (unless the write
\* fails) and returns that diagnostic.
C8_CompletionFailureRecorded ==
    \A h \in Handlers :
        (pc[h] = "returned" /\ exc[h] = "APIError")
        => /\ Contains(result[h], <<"APIError">>)
           /\ Head(result[h])
                  = "An error occurred while processing the request:"
           /\ HistoryOf(h) # <<>>
           /\ LastOf(HistoryOf(h))
                  = [role |-> "assistant", content |-> result[h]]
           /\ ~save_failed[h] =>
                  /\ fs[memory_file(agent[h])].exists
                  /\ LoadFile(fs[memory_file(agent[h])])
                         = conversation_memory[agent[h]]

C8_Witness ==
    \E h \in Handlers :
        /\ pc[h] = "returned"
        /\ exc[h] = "APIError"
        /\ iteration[h] >= 1
        /\ ~save_failed[h]

\* the directive names something that is no attribute of the tools object
NamesUnknownTool(text) ==
    /\ ToolMatch(text) # NoMatch
    /\ ToolMatch(text)[1]
           \notin ToolMethods \cup PrivateMethods \cup DataAttributes
                      \cup InheritedAttributes

\* C9: dispatching a directive whose tool name is unknown does not raise:
\* the dispatch yields a not-found text, and that text is in the message
\* sent to the model in the next completion request.
C9_UnknownToolFedBack ==
    [][\A h \in Handlers :
          (/\ pc[h] = "loop"
           /\ pc'[h] # "loop"
           /\ Contains(response_text[h], ToolMarker)
           /\ iteration[h] < 3
           /\ NamesUnknownTool(response_text[h]))
          => /\ pc'[h] = "invoke"
             /\ exc'[h] = NoExc
             /\ tool_calls'[h] = tool_calls[h]
             /\ Contains(tool_response'[h], <<"not found">>)
             /\ Contains(tool_response'[h], ToolMatch(response_text[h]))
             /\ LastOf(messages'[h]).cls = "HumanMessage"
             /\ Contains(LastOf(messages'[h]).content, tool_response'[h])]_vars

C9_Witness ==
    \E h \in Handlers :
        /\ pc[h] = "loop"
        /\ completions[h] = 2
        /\ tool_response[h] = <<"Tool", " ", "'", "get_time", "'", " ",
                                "not found">>
        /\ Contains(LastOf(messages[h]).content, tool_response[h])

\* the directive names a tool attribute and carries arguments with which
\* the call raises
CallOfDirectiveRaises(text) ==
    /\ NamesToolAttribute(text)
    /\ ParseArgs(text) # EmptyDict
    /\ CallRaises(ToolMatch(text)[1], ParseArgs(text))

\* C10: an exception raised by a tool callable is caught inside
\* _execute_tool_from_response and turned into an error text, and the loop
\* goes on by feeding that text to the model instead of aborting.
C10_ToolExceptionFedBack ==
    [][\A h \in Handlers :
          (/\ pc[h] = "loop"
           /\ pc'[h] # "loop"
           /\ Contains(response_text[h], ToolMarker)
           /\ iteration[h] < 3
           /\ CallOfDirectiveRaises(response_text[h]))
          => /\ pc'[h] = "invoke"
             /\ exc'[h] = NoExc
             /\ tool_calls'[h] = tool_calls[h] + 1
             /\ Contains(tool_response'[h], <<"Tool execution error:">>)
             /\ LastOf(messages'[h]).cls = "HumanMessage"
             /\ Contains(LastOf(messages'[h]).content, tool_response'[h])]_vars

C10_Witness ==
    \E h \in Handlers :
        /\ pc[h] = "returned"
        /\ exc[h] = NoExc
        /\ tool_response[h] = <<"Tool execution error:", " ", "TypeError">>
        /\ result[h] = PlainAnswer
        /\ completions[h] = 2

\* C11: a tool callable is invoked only when the tool name of the directive
\* is one of the 14 documented tools: the dispatch of every other name,
\* also the name of a data attribute, of a private helper or of an inherited
\* attribute of the tools object, yields the not-found text and invokes
\* nothing.
C11_OnlyDocumentedToolsInvoked ==
    [][\A h \in Handlers :
          (/\ pc[h] = "loop"
           /\ pc'[h] # "loop"
           /\ Contains(response_text[h], ToolMarker)
           /\ iteration[h] < 3
           /\ ToolMatch(response_text[h]) # NoMatch
           /\ ToolMatch(response_text[h])[1] \notin ToolMethods)
          => /\ tool_calls'[h] = tool_calls[h]
             /\ Contains(tool_response'[h], <<"not found">>)]_vars

\* handler h is inside process_query
InsideProcessQuery(h) ==
    pc[h] \in {"invoke", "loop", "answer", "save", "write", "except",
               "save_error", "write_error", "return", "return_error"}

\* C12: within one session at most one call is outstanding: two messages of
\* the same user handled by the bot are never inside process_query of that
\* user's agent at the same time.
C12_OneCallPerSession ==
    \A g \in Handlers, h \in Handlers :
        (/\ g # h
         /\ huser[g] = huser[h]
         /\ agent[g] = agent[h])
        => ~(InsideProcessQuery(g) /\ InsideProcessQuery(h))

\* a clear_memory of the agent of handler h is under way in another handler
ClearUnderWay(h) ==
    \E g \in Handlers :
        g # h /\ agent[g] = agent[h] /\ pc[g] \in {"clear", "remove"}

\* C13: clear is atomic with respect to the persisted state: once
\* clear_memory has returned, the file of the session never again holds a
\* turn that was appended before the clear began, also when a _save_memory
\* of a process_query of the same session is in flight: records collected
\* before the clear began are not written after it has returned.
C13_ClearAtomic ==
    [][\A h \in Handlers :
          (/\ pc[h] \in {"write", "write_error"}
           /\ pc'[h] # pc[h]
           /\ stale[h]
           /\ ~ClearUnderWay(h))
          => fs'[memory_file(agent[h])] = fs[memory_file(agent[h])]]_vars

\* C14: after clear_memory on an agent, with no other operation running,
\* get_conversation_history of the agent is empty and a new agent
\* constructed from the persisted file has an empty history too, whatever
\* process_query calls went before.
C14_ClearEmptiesHistory ==
    [][\A h \in Handlers :
          (pc[h] = "remove" /\ pc'[h] # "remove")
          => /\ ConversationHistory(conversation_memory'[agent[h]]) = <<>>
             /\ ConversationHistory(LoadFile(fs'[memory_file(agent[h])]))
                    = <<>>]_vars

C14_Witness ==
    /\ \A h \in Handlers : pc[h] = "idle"
    /\ \E u \in Users :
           /\ user_agents[u] # NoAgent
           /\ conversation_memory[user_agents[u]] = <<>>
           /\ ~fs[memory_file(user_agents[u])].exists
    /\ directives > 0

\* the record that _save_memory writes for message msg
RecordOf(msg) ==
    [type |-> IF msg.cls = "HumanMessage" THEN "human" ELSE "ai",
     content |-> msg.content]

\* C15: the persistence round trip keeps role and content: what
\* _save_memory writes, _load_memory reads back in a new agent as the same
\* number of turns, in the same order, each with the same role and content.
C15_RoundTripLossless ==
    [][\A h \in Handlers :
          (/\ pc[h] \in {"write", "write_error"}
           /\ pc'[h] # pc[h]
           /\ ~save_failed'[h])
          => ConversationHistory(LoadFile(fs'[memory_file(agent[h])]))
                 = ConversationHistory(conversation_memory[agent[h]])]_vars

C15_Witness ==
    \E h \in Handlers :
        /\ pc[h] = "return"
        /\ ~save_failed[h]
        /\ LoadFile(fs[memory_file(agent[h])]) = conversation_memory[agent[h]]
        /\ \E i \in 1..Len(conversation_memory[agent[h]]) :
               /\ conversation_memory[agent[h]][i].cls = "AIMessage"
               /\ Contains(conversation_memory[agent[h]][i].content,
                           <<"\"", "}">>)
        /\ \E i \in 1..Len(conversation_memory[agent[h]]) :
               conversation_memory[agent[h]][i].cls = "HumanMessage"

\* C16: whenever process_query returns, on the success path or on the
\* error path, and the save did not fail, the records in the file are those
\* of the complete conversation memory: one record per turn, in order.
C16_FlushedOnReturn ==
    \A h \in Handlers :
        (pc[h] = "returned" /\ ~save_failed[h])
        => LET file == fs[memory_file(agent[h])]
               mem == conversation_memory[agent[h]]
           IN  /\ file.exists
               /\ Len(file.data) = Len(mem)
               /\ \A i \in 1..Len(mem) :
                      JsonLoad(file.data)[i] = RecordOf(mem[i])

C16_Witness ==
    \E h \in Handlers :
        /\ pc[h] = "returned"
        /\ ~save_failed[h]
        /\ exc[h] = "APIError"
        /\ Len(conversation_memory[agent[h]]) > HistoryWindow
        /\ Len(messages[h]) = HistoryWindow + 1
        /\ Len(fs[memory_file(agent[h])].data)
               = Len(conversation_memory[agent[h]])

\* record r of the file has the keys that _load_memory reads
ValidRecord(r) == "type" \in DOMAIN r /\ "content" \in DOMAIN r

\* the message that a valid human or ai record stands for
MessageOf(r) ==
    [cls |-> IF r.type = "human" THEN "HumanMessage" ELSE "AIMessage",
     content |-> r.content]

\* C17: load skips corrupt individual records: when the file holds a list
\* of records of which one lacks the key type or the key content,
\* _load_memory returns every other record, in file order, also the valid
\* records that come after the corrupt one.
C17_CorruptRecordSkipped ==
    [][\A h \in Handlers :
          (/\ pc[h] = "construct"
           /\ pc'[h] = "begin"
           /\ fs[memory_file(agent'[h])].exists)
          => LET data == JsonLoad(fs[memory_file(agent'[h])].data)
                 valid == SelectSeq(data, ValidRecord)
             IN  Len(valid) = Len(data) - 1
                 => conversation_memory'[agent'[h]]
                        = [i \in 1..Len(valid) |-> MessageOf(valid[i])]]_vars

\* C18: a failing save does not block the answer: when the write of
\* _save_memory fails after the answer was appended, no exception reaches
\* process_query, which returns the last completion, not an error
\* diagnostic, and the memory ends with that text as the assistant turn.
C18_SaveFailureKeepsAnswer ==
    [][\A h \in Handlers :
          /\ (pc[h] = "write" /\ pc'[h] # "write" /\ save_failed'[h])
             => /\ pc'[h] = "return"
                /\ exc'[h] = NoExc
                /\ conversation_memory' = conversation_memory
          /\ (pc[h] = "return" /\ pc'[h] # "return" /\ save_failed[h])
             => /\ pc'[h] = "returned"
                /\ result'[h] = response_text[h]
                /\ result'[h] # NoText
                /\ Head(result'[h])
                       # "An error occurred while processing the request:"
                /\ LastOf(ConversationHistory(
                              conversation_memory'[agent[h]]))
                       = [role |-> "assistant", content |-> result'[h]]]_vars

C18_Witness ==
    \E h \in Handlers :
        /\ pc[h] = "returned"
        /\ save_failed[h]
        /\ exc[h] = NoExc
        /\ tool_calls[h] = 1
        /\ result[h] = PlainAnswer
        /\ ~fs[memory_file(agent[h])].exists

\* C19: when two first messages of the same user are handled at the same
\* time, get_user_agent constructs exactly one AIAgent for that user and
\* both handlers use that instance: no more agents are constructed than
\* users have an agent, and two handlers of one user hold the same agent.
C19_OneAgentPerUser ==
    /\ agent_count = Cardinality({u \in Users : user_agents[u] # NoAgent})
    /\ \A g \in Handlers, h \in Handlers :
           (/\ huser[g] # NoUser
            /\ huser[g] = huser[h]
            /\ agent[g] # NoAgent
            /\ agent[h] # NoAgent)
           => agent[g] = agent[h]

\* text t holds a directive in the documented layout: a TOOL: marker that
\* starts a line and an ARGS: marker somewhere after it
DocumentedDirective(t) ==
    \E i \in 1..Len(t) :
        /\ t[i] = "TOOL:"
        /\ (i = 1 \/ t[i - 1] = "\n")
        /\ \E j \in (i + 1)..Len(t) : t[j] = "ARGS:"

\* C20: a directive is detected only when the TOOL: marker is on its own
\* logical line and an ARGS: marker follows later: a completion where TOOL:
\* occurs only inside prose, or with no ARGS: after it, is treated as
\* holding no directive, so process_query returns it as the final answer
\* without entering the dispatch.
C20_DirectiveNeedsDocumentedLayout ==
    \A h \in Handlers :
        (/\ InCall(h)
         /\ completions[h] = 1
         /\ exc[h] = NoExc
         /\ ~DocumentedDirective(response_text[h]))
        => /\ iteration[h] = 0
           /\ tool_calls[h] = 0
           /\ pc[h] # "invoke"
           /\ pc[h] = "returned" => result[h] = response_text[h]

\* the directive has no payload, a payload that fails both parses, or a
\* payload that is an empty object
NoUsableArgs(text) ==
    \/ ArgsMatch(text) = NoMatch
    \/ PayloadUnparseable(text)
    \/ /\ ArgsMatch(text) # NoMatch
       /\ json_loads(ArgsMatch(text)).ok
       /\ json_loads(ArgsMatch(text)).val = EmptyDict

\* C21 as stated: a tool callable is never invoked with zero arguments:
\* when the directive has no ARGS payload, a payload that fails both parses
\* or an empty object payload, the dispatch invokes no callable and yields
\* the 'could not extract arguments' diagnostic.
C21_NoArgsGivesDiagnostic ==
    [][\A h \in Handlers :
          (/\ pc[h] = "loop"
           /\ pc'[h] # "loop"
           /\ Contains(response_text[h], ToolMarker)
           /\ iteration[h] < 3
           /\ ToolMatch(response_text[h]) # NoMatch
           /\ NoUsableArgs(response_text[h]))
          => /\ tool_calls'[h] = tool_calls[h]
             /\ Contains(tool_response'[h], CouldNotExtract)]_vars

\* C21 as amended: when the directive has no ARGS payload, a payload that
\* fails both parses or an empty object payload, the dispatch invokes no
\* callable; when the directive names an attribute of the tools object it
\* yields the 'could not extract arguments' diagnostic, also for tools all
\* of whose parameters are optional, and otherwise the not-found text.
C21_NoCallWithoutArgs ==
    [][\A h \in Handlers :
          (/\ pc[h] = "loop"
           /\ pc'[h] # "loop"
           /\ Contains(response_text[h], ToolMarker)
           /\ iteration[h] < 3
           /\ ToolMatch(response_text[h]) # NoMatch
           /\ NoUsableArgs(response_text[h]))
          => /\ tool_calls'[h] = tool_calls[h]
             /\ args'[h] = EmptyDict
             /\ IF NamesToolAttribute(response_text[h])
                THEN Contains(tool_response'[h], CouldNotExtract)
                ELSE Contains(tool_response'[h], <<"not found">>)]_vars

C21_Witness ==
    \E h \in Handlers :
        /\ pc[h] = "invoke"
        /\ iteration[h] = 1
        /\ tool_calls[h] = 0
        /\ ToolMatch(response_text[h]) = <<"list_reminders">>
        /\ ArgsMatch(response_text[h]) = <<"{", " ", "}">>
        /\ Head(tool_response[h]) = "Could not extract arguments for tool"

\* C22: the history part of the prompt of the first completion of
\* process_query is exactly the last min(10, n) turns of the conversation
\* memory, oldest first, where n counts the user turn just appended: the
\* user text is the last message of the prompt and older turns are not in
\* it.
C22_PromptIsLastTenTurns ==
    \A h \in Handlers :
        (pc[h] = "invoke" /\ completions[h] = 0)
        => LET mem == conversation_memory[agent[h]]
               n == Len(mem)
               k == IF n < 10 THEN n ELSE 10
           IN  /\ n >= 1
               /\ Len(messages[h]) = k + 1
               /\ messages[h][1].cls = "SystemMessage"
               /\ \A i \in 1..k : messages[h][i + 1] = mem[n - k + i]
               /\ messages[h][k + 1]
                      = [cls |-> "HumanMessage",
                         content |-> UserText(huser[h])]

C22_Witness ==
    \E h \in Handlers :
        /\ pc[h] = "invoke"
        /\ completions[h] = 0
        /\ Len(conversation_memory[agent[h]]) = 13
        /\ Len(messages[h]) = 11
        /\ messages[h][2] = conversation_memory[agent[h]][4]

\* a measure of what is left of the process_query call of handler h
Variant(h) ==
    CASE pc[h] = "begin" -> 100
      [] pc[h] = "invoke" -> 20 * (max_iterations - iteration[h]) + 12
      [] pc[h] = "loop" -> 20 * (max_iterations - iteration[h]) + 11
      [] pc[h] = "answer" -> 9
      [] pc[h] = "save" -> 8
      [] pc[h] = "write" -> 7
      [] pc[h] = "except" -> 6
      [] pc[h] = "save_error" -> 5
      [] pc[h] = "write_error" -> 4
      [] pc[h] \in {"return", "return_error"} -> 3
      [] OTHER -> 0

\* the call of handler h can take its next step: the completion or the tool
\* call it waits for returns or fails, and no other step waits for anything
CallCanStep(h) ==
    \/ pc[h] = "loop" /\ LoopCondition(h)
    \/ ENABLED (\/ ProcessQueryBegin(h)
                \/ LLMFails(h)
                \/ LoopExit(h)
                \/ AppendAnswer(h)
                \/ ExceptHandler(h)
                \/ BuildMessagesData(h)
                \/ WriteFile(h, FALSE)
                \/ Return(h))

\* C23: every process_query call eventually returns, whatever texts the
\* model produces, when each completion and each tool call returns or
\* fails: every step of the call lowers a measure that stays a natural
\* number, and a call that has not returned can always take a step.
C23_Terminates ==
    /\ [][\A h \in Handlers :
             ((pc[h] = "begin" \/ InsideProcessQuery(h))
              /\ pc'[h] # pc[h])
             => /\ Variant(h)' < Variant(h)
                /\ Variant(h)' >= 0]_vars
    /\ [](\A h \in Handlers :
             (pc[h] = "begin" \/ InsideProcessQuery(h)) => CallCanStep(h))

C23_Witness ==
    \E h \in Handlers :
        /\ pc[h] = "returned"
        /\ iteration[h] = 3
        /\ completions[h] = 4
        /\ exc[h] = NoExc
        /\ ~Contains(result[h], ToolMarker)


RECURSIVE WrittenWithDoubleQuotes(_)
\* the payload s written with double quotes: an apostrophe that delimits a
\* key or a value becomes a double quote, and an escaped apostrophe inside a
\* value is that apostrophe, which needs no escape between double quotes
WrittenWithDoubleQuotes(s) ==
    IF s = <<>> THEN <<>>
    ELSE IF Len(s) >= 2 /\ s[1] = "\\" /\ s[2] = "'"
    THEN <<"'">> \o WrittenWithDoubleQuotes(SubSeq(s, 3, Len(s)))
    ELSE IF s[1] = "'"
    THEN <<"\"">> \o WrittenWithDoubleQuotes(Suffix(s, 2))
    ELSE <<s[1]>> \o WrittenWithDoubleQuotes(Suffix(s, 2))

\* the payload of the directive fails the strict parse because its keys and
\* values are single-quoted
SingleQuoted(text) ==
    /\ ToolMatch(text) # NoMatch
    /\ ArgsMatch(text) # NoMatch
    /\ ~json_loads(ArgsMatch(text)).ok
    /\ \E i \in 1..Len(ArgsMatch(text)) : ArgsMatch(text)[i] = "'"
    /\ \A i \in 1..Len(ArgsMatch(text)) : ArgsMatch(text)[i] # "\""

\* C24: when the payload fails the strict parse because its keys and values
\* are single-quoted, the one repair pass yields the mapping of the same
\* payload written with double quotes; when the repaired text fails to
\* parse too, the arguments are treated as missing.
C24_RepairGivesSameMapping ==
    \A h \in Handlers :
        (/\ pc[h] = "invoke"
         /\ iteration[h] >= 1
         /\ SingleQuoted(response_text[h]))
        => LET payload == ArgsMatch(response_text[h])
               written == json_loads(WrittenWithDoubleQuotes(payload))
           IN  IF json_loads(ReplaceQuotes(payload)).ok
               THEN written.ok /\ args[h] = written.val
               ELSE args[h] = EmptyDict


\* C25: each sequential process_query call grows the conversation memory
\* by exactly two turns, the user turn with the input text and then one
\* assistant turn, on the success path and on the error path and however
\* many iterations ran: the first step appends the user turn, the step that
\* takes the answer or the diagnostic appends one assistant turn, every
\* other step of the call leaves the memory as it is (directive texts and
\* tool results go to the prompt only), and earlier turns never change.
C25_TwoTurnsPerCall ==
    [][\A h \in Handlers :
          LET before == conversation_memory[agent[h]]
              after == conversation_memory'[agent[h]]
          IN  /\ (pc[h] = "begin" /\ pc'[h] # "begin")
                  => after = before \o <<[cls |-> "HumanMessage",
                                          content |-> UserText(huser[h])]>>
              /\ (pc[h] = "answer" /\ pc'[h] # "answer")
                  => after = before \o <<[cls |-> "AIMessage",
                                          content |-> response_text[h]]>>
              /\ (pc[h] = "except" /\ pc'[h] # "except")
                  => after = before \o <<[cls |-> "AIMessage",
                                          content |-> error_msg'[h]]>>
              /\ (InsideProcessQuery(h) /\ pc[h] \notin {"answer", "except"})
                  => after = before
              /\ (pc[h] # "returned" /\ pc'[h] = "returned")
                  => /\ Len(after) >= 2
                     /\ after[Len(after) - 1]
                            = [cls |-> "HumanMessage",
                               content |-> UserText(huser[h])]
                     /\ after[Len(after)]
                            = [cls |-> "AIMessage", content |-> result'[h]]
      ]_vars

C25_Witness ==
    \E h \in Handlers :
        /\ pc[h] = "returned"
        /\ iteration[h] = 2
        /\ Len(messages[h]) = 15
        /\ Len(conversation_memory[agent[h]]) = 12
        /\ conversation_memory[agent[h]][10].content = LongRun[10].content


\* C26: after /clear has been handled for a user, the next /history of
\* that user reports an empty history, also when the map held no agent for
\* the user when /clear came.
C26_HistoryEmptyAfterClear ==
    \A h \in Handlers :
        (pc[h] = "history" /\ cleared[huser[h]])
        => ConversationHistory(conversation_memory[agent[h]]) = <<>>


\* C27: after any sequence of add_reminder and delete_reminder calls the
\* ids of the stored reminders are pairwise distinct, so delete_reminder
\* of an id removes at most one reminder.
C27_ReminderIdsDistinct ==
    /\ \A i, j \in 1..Len(reminders) :
           i # j => reminders[i].id # reminders[j].id
    /\ \A reminder_id \in 1..MaxReminders :
           Len(reminders) - Len(WithoutId(reminders, reminder_id)) <= 1


====
